---- MODULE Spec2Model ----
(***************************************************************************)
(* The TCPCLv4 Contact Header of dtn-tcpcl (src/src/lib.rs): the header    *)
(* model with its builder methods, ContactHeader::serialize and the nom    *)
(* parser behind ContactHeader::deserialize.                               *)
(*                                                                         *)
(* A byte is a number in 0..255, a buffer (Vec<u8>, &[u8]) a sequence of   *)
(* bytes, a String the sequence of its UTF-8 bytes.  Option<String> is the *)
(* record [some, val].  The u16/u64 field values used are all below 2^31.  *)
(***************************************************************************)
EXTENDS Integers, Sequences, FiniteSets, TLC

VARIABLES h,        \* the ContactHeader the caller is building
          eidRes,   \* what the last call of ContactHeader::eid returned
          wire,     \* the bytes the last call of serialize returned / the receive buffer
          res,      \* the slice length and outcome of the last call of deserialize
          strict,   \* argument and outcome of the last call of from_bits_strict
          panicked  \* TRUE once an assert! or unwrap() has aborted the caller

vars == <<h, eidRes, wire, res, strict, panicked>>

----------------------------------------------------------------------------
(* Bounds of the model *)

\* longest endpoint id (in bytes) the builder is given, and longest run of
\* bytes that follows the length field of a received buffer
MaxEidLen == 2

(* Program constants *)

U16_MAX == 65535
SUPPORTED_VERSION == 4
CAN_TLS == 1

HEADER_MAGIC == <<100, 116, 110, 33>>

----------------------------------------------------------------------------
(* Bytes and integers *)

RECURSIVE BitAnd(_, _)
\* a & b on unsigned numbers
BitAnd(a, b) ==
    IF a = 0 \/ b = 0 THEN 0
    ELSE (a % 2) * (b % 2) + 2 * BitAnd(a \div 2, b \div 2)

\* a | b
BitOr(a, b) == a + b - BitAnd(a, b)

\* !a on a u8
BitNot8(a) == 255 - a

RECURSIVE LittleEndian(_, _)
\* a faulty variant of BigEndian: least significant byte first
LittleEndian(v, n) ==
    IF n = 0 THEN <<>> ELSE <<v % 256>> \o LittleEndian(v \div 256, n - 1)

RECURSIVE BigEndian(_, _)
\* the n low-order bytes of v, most significant first
BigEndian(v, n) ==
    IF n = 0 THEN <<>> ELSE BigEndian(v \div 256, n - 1) \o <<v % 256>>

write_u8(v) == <<v % 256>>
write_u16(v) == BigEndian(v, 2)
write_u64(v) == BigEndian(v, 8)

RECURSIVE FromBigEndian(_)
\* the number a big-endian byte string denotes
FromBigEndian(b) ==
    IF b = <<>> THEN 0
    ELSE 256 * FromBigEndian(SubSeq(b, 1, Len(b) - 1)) + b[Len(b)]

\* the first n elements of s, and s without them
Take(s, n) == SubSeq(s, 1, n)
Drop(s, n) == SubSeq(s, n + 1, Len(s))

RECURSIVE SeqsUpTo(_, _)
\* all sequences over S of length at most n
SeqsUpTo(S, n) ==
    IF n = 0 THEN {<<>>}
    ELSE LET shorter == SeqsUpTo(S, n - 1)
         IN  shorter \cup {Append(s, x) : s \in shorter, x \in S}

----------------------------------------------------------------------------
(* UTF-8, as String::from_utf8 validates it *)

IsCont(b) == b >= 128 /\ b <= 191

RECURSIVE Utf8Valid(_)
Utf8Valid(s) ==
    IF s = <<>> THEN TRUE
    ELSE LET b0 == s[1]
             n  == Len(s)
         IN  IF b0 < 128 THEN Utf8Valid(Drop(s, 1))
             ELSE IF b0 >= 194 /\ b0 <= 223
             THEN n >= 2 /\ IsCont(s[2]) /\ Utf8Valid(Drop(s, 2))
             ELSE IF b0 >= 224 /\ b0 <= 239
             THEN /\ n >= 3
                  /\ \/ b0 = 224 /\ s[2] >= 160 /\ s[2] <= 191
                     \/ b0 >= 225 /\ b0 <= 236 /\ IsCont(s[2])
                     \/ b0 = 237 /\ s[2] >= 128 /\ s[2] <= 159
                     \/ b0 >= 238 /\ IsCont(s[2])
                  /\ IsCont(s[3])
                  /\ Utf8Valid(Drop(s, 3))
             ELSE IF b0 >= 240 /\ b0 <= 244
             THEN /\ n >= 4
                  /\ \/ b0 = 240 /\ s[2] >= 144 /\ s[2] <= 191
                     \/ b0 >= 241 /\ b0 <= 243 /\ IsCont(s[2])
                     \/ b0 = 244 /\ s[2] >= 128 /\ s[2] <= 143
                  /\ IsCont(s[3])
                  /\ IsCont(s[4])
                  /\ Utf8Valid(Drop(s, 4))
             ELSE FALSE

----------------------------------------------------------------------------
(* The header model *)

None == [some |-> FALSE, val |-> <<>>]
Some(s) == [some |-> TRUE, val |-> s]

\* ContactHeaderFlags: the bits of the defined flags
ALL_FLAGS == CAN_TLS
EmptyFlags == 0

\* a faulty variant of from_bits: unknown bits are dropped, as from_bits_truncate does
from_bits_truncate(bits) == Some(BitAnd(bits, ALL_FLAGS))

\* ContactHeaderFlags::from_bits
from_bits(bits) ==
    IF BitAnd(bits, BitNot8(ALL_FLAGS)) # 0 THEN None ELSE Some(bits)

\* ContactHeader::new
new ==
    [version      |-> SUPPORTED_VERSION,
     flags        |-> EmptyFlags,
     keepalive    |-> 0,
     segment_mru  |-> 0,
     transfer_mru |-> 0,
     eid          |-> None]

\* ContactHeaderFlags::from_bits_strict: TRUE when it returns Ok
from_bits_strict(bits) == from_bits(bits).some

\* a faulty variant of insert: the bits are toggled
insert_toggle(fl, other) == BitOr(fl, other) - BitAnd(fl, other)

\* ContactHeaderFlags::insert and ::remove
insert(fl, other) == BitOr(fl, other)
remove(fl, other) == BitAnd(fl, BitNot8(other))

\* a faulty variant of eid_fits: the length is cast to u16 before it is compared
eid_fits_after_cast(s) == ~(Len(s) % (U16_MAX + 1) > U16_MAX)

\* the length check of ContactHeader::eid: TRUE when the eid is accepted
eid_fits(s) == ~(Len(s) > U16_MAX)

----------------------------------------------------------------------------
(* The encoder *)

\* ContactHeader::serialize, for a header that passes its assert!
serialize(hdr) ==
    HEADER_MAGIC
    \o write_u8(hdr.version)
    \o write_u8(hdr.flags)
    \o write_u16(hdr.keepalive)
    \o write_u64(hdr.segment_mru)
    \o write_u64(hdr.transfer_mru)
    \o (IF hdr.eid.some
        THEN write_u16(Len(hdr.eid.val) % (U16_MAX + 1)) \o hdr.eid.val
        ELSE write_u16(0))

\* the assert! of serialize
serialize_asserts(hdr) == hdr.eid.some => Len(hdr.eid.val) <= U16_MAX

----------------------------------------------------------------------------
(* The decoder: nom's IResult and the parsers of lib.rs *)

Done(rest, val) == [kind |-> "Done", rest |-> rest, val |-> val]
Incomplete(n)   == [kind |-> "Incomplete", needed |-> n]
Error(e)        == [kind |-> "Error", err |-> e]
Panic           == [kind |-> "Panic"]

\* a faulty variant of tag: the bytes are taken without being compared
tag_uncompared(i, t) ==
    IF Len(i) < Len(t) THEN Incomplete(Len(t))
    ELSE Done(Drop(i, Len(t)), Take(i, Len(t)))

\* tag!: compare as much of the tag as the input holds, then ask for the rest
tag(i, t) ==
    LET m == IF Len(i) < Len(t) THEN Len(i) ELSE Len(t)
    IN  IF Take(i, m) # Take(t, m) THEN Error("Tag")
        ELSE IF m < Len(t) THEN Incomplete(Len(t))
        ELSE Done(Drop(i, Len(t)), Take(i, Len(t)))

\* be_u8, be_u16, be_u64: a big-endian unsigned number of n bytes
be_uint(i, n) ==
    IF Len(i) < n THEN Incomplete(n)
    ELSE Done(Drop(i, n), FromBigEndian(Take(i, n)))

be_u8(i)  == be_uint(i, 1)
be_u16(i) == be_uint(i, 2)
be_u64(i) == be_uint(i, 8)

\* a faulty variant of take: one byte more than count is asked for
take_one_more(i, count) ==
    IF Len(i) <= count THEN Incomplete(count)
    ELSE Done(Drop(i, count), Take(i, count))

\* take!
take(i, count) ==
    IF Len(i) < count THEN Incomplete(count)
    ELSE Done(Drop(i, count), Take(i, count))

\* map_opt!: a parser's result r with its value replaced by the option opt
\* computed from it; None is an error
map_opt(r, opt) ==
    IF r.kind # "Done" THEN r
    ELSE IF opt.some THEN Done(r.rest, opt.val)
    ELSE Error("MapOpt")

\* do_parse!: a step that does not finish ends the parse; the bytes it asks
\* for are counted from the start of the input
do_parse_stop(r, consumed) ==
    IF r.kind = "Incomplete" THEN Incomplete(consumed + r.needed) ELSE r

\* the closure of the version parser
version_opt(x) == IF x = SUPPORTED_VERSION THEN Some(SUPPORTED_VERSION) ELSE None

\* a faulty variant of version: any version octet is accepted
version_any(i) == be_u8(i)

version(i) ==
    LET x == be_u8(i) IN map_opt(x, IF x.kind = "Done" THEN version_opt(x.val) ELSE None)

header_flags(i) ==
    LET x == be_u8(i) IN map_opt(x, IF x.kind = "Done" THEN from_bits(x.val) ELSE None)

\* String::from_utf8(raw_eid.to_vec()).unwrap() panics on invalid UTF-8
parse_eid(i) ==
    LET size    == be_u16(i)
        raw_eid == take(size.rest, size.val)
    IN  IF size.kind # "Done" THEN do_parse_stop(size, 0)
        ELSE IF raw_eid.kind # "Done"
        THEN do_parse_stop(raw_eid, Len(i) - Len(size.rest))
        ELSE IF size.val = 0 THEN Done(raw_eid.rest, None)
        ELSE IF Utf8Valid(raw_eid.val) THEN Done(raw_eid.rest, Some(raw_eid.val))
        ELSE Panic

contact_header(i) ==
    LET magic    == tag(i, HEADER_MAGIC)
        ver      == version(magic.rest)
        fl       == header_flags(ver.rest)
        ka       == be_u16(fl.rest)
        smru     == be_u64(ka.rest)
        tmru     == be_u64(smru.rest)
        e        == parse_eid(tmru.rest)
        at(rest) == Len(i) - Len(rest)
    IN  IF magic.kind # "Done" THEN do_parse_stop(magic, 0)
        ELSE IF ver.kind # "Done" THEN do_parse_stop(ver, at(magic.rest))
        ELSE IF fl.kind # "Done" THEN do_parse_stop(fl, at(ver.rest))
        ELSE IF ka.kind # "Done" THEN do_parse_stop(ka, at(fl.rest))
        ELSE IF smru.kind # "Done" THEN do_parse_stop(smru, at(ka.rest))
        ELSE IF tmru.kind # "Done" THEN do_parse_stop(tmru, at(smru.rest))
        ELSE IF e.kind # "Done" THEN do_parse_stop(e, at(tmru.rest))
        ELSE Done(e.rest,
                  [version      |-> ver.val,
                   flags        |-> fl.val,
                   keepalive    |-> ka.val,
                   segment_mru  |-> smru.val,
                   transfer_mru |-> tmru.val,
                   eid          |-> e.val])

\* ContactHeader::deserialize
deserialize(i) == contact_header(i)

----------------------------------------------------------------------------
(* What the callers pass in *)

FlagValues    == {EmptyFlags, CAN_TLS}
KeepaliveVals == {0, 300}
SegmentVals   == {0, 4096}
TransferVals  == {0, 1048576}

\* bytes of "a" and of the two-byte "e acute", the latter also torn apart
EidAlphabet == {97, 195, 169}

\* the Strings given to ContactHeader::eid (a String is valid UTF-8)
EidInputs == {s \in SeqsUpTo(EidAlphabet, MaxEidLen) : Utf8Valid(s)}

\* Strings at and just beyond the u16 limit
LongEids == {[k \in 1..U16_MAX |-> 97], [k \in 1..(U16_MAX + 1) |-> 97]}

\* the octets given to from_bits_strict and found in received flag fields
FlagOctets == {0, 1, 2, 129}

Magics == {HEADER_MAGIC, <<100, 116, 110, 34>>, <<68, 116, 110, 33>>}

\* buffers a transport may hand to the decoder: any magic, version, flags
\* and length field, followed by any bytes
ReceivedBuffers ==
    {m \o write_u8(v) \o write_u8(f) \o write_u16(k) \o write_u64(sm)
       \o write_u64(tm) \o write_u16(l) \o tail :
        m \in Magics, v \in {SUPPORTED_VERSION, 5}, f \in FlagOctets,
        k \in {300}, sm \in {4096}, tm \in {1048576},
        l \in (0..MaxEidLen) \cup {258},
        tail \in SeqsUpTo(EidAlphabet, MaxEidLen)}

Prefixes(b) == {Take(b, n) : n \in 0..Len(b)}

NoResult == [n |-> -1, out |-> [kind |-> "none"]]
NoStrict == [bits |-> -1, ok |-> FALSE]

----------------------------------------------------------------------------
(* The operations *)

Init ==
    /\ h = new
    /\ eidRes = "none"
    /\ wire = <<>>
    /\ res = NoResult
    /\ strict = NoStrict
    /\ panicked = FALSE

\* ContactHeader::new, the first statement of a caller (main of
\* contact_dump.rs, handle_connection of server_test.rs): nothing is encoded
\* or decoded yet
New ==
    /\ ~panicked
    /\ h' = new
    /\ wire' = <<>>
    /\ res' = NoResult
    /\ UNCHANGED <<eidRes, strict, panicked>>

\* ContactHeader::eid
eid(s) ==
    /\ ~panicked
    /\ IF eid_fits(s)
       THEN h' = [h EXCEPT !.eid = Some(s)] /\ eidRes' = "Ok"
       ELSE h' = h /\ eidRes' = "Err"
    /\ UNCHANGED <<wire, res, strict, panicked>>

\* ContactHeader::flags
flags(f) ==
    /\ ~panicked
    /\ h' = [h EXCEPT !.flags = f]
    /\ UNCHANGED <<eidRes, wire, res, strict, panicked>>

\* ContactHeader::keepalive
keepalive(k) ==
    /\ ~panicked
    /\ h' = [h EXCEPT !.keepalive = k]
    /\ UNCHANGED <<eidRes, wire, res, strict, panicked>>

\* ContactHeader::segment_mru
segment_mru(v) ==
    /\ ~panicked
    /\ h' = [h EXCEPT !.segment_mru = v]
    /\ UNCHANGED <<eidRes, wire, res, strict, panicked>>

\* ContactHeader::transfer_mru
transfer_mru(v) ==
    /\ ~panicked
    /\ h' = [h EXCEPT !.transfer_mru = v]
    /\ UNCHANGED <<eidRes, wire, res, strict, panicked>>

\* ContactHeader::set_flag
set_flag(f) ==
    /\ ~panicked
    /\ h' = [h EXCEPT !.flags = insert(h.flags, f)]
    /\ UNCHANGED <<eidRes, wire, res, strict, panicked>>

\* ContactHeader::unset_flag
unset_flag(f) ==
    /\ ~panicked
    /\ h' = [h EXCEPT !.flags = remove(h.flags, f)]
    /\ UNCHANGED <<eidRes, wire, res, strict, panicked>>

\* ContactHeader::clear_flags
clear_flags ==
    /\ ~panicked
    /\ h' = [h EXCEPT !.flags = EmptyFlags]
    /\ UNCHANGED <<eidRes, wire, res, strict, panicked>>

\* ContactHeader::serialize: the caller keeps the bytes as the message on the
\* wire, of which nothing has been decoded yet
Serialize ==
    /\ ~panicked
    /\ IF serialize_asserts(h)
       THEN wire' = serialize(h) /\ res' = NoResult /\ panicked' = FALSE
       ELSE panicked' = TRUE /\ UNCHANGED <<wire, res>>
    /\ UNCHANGED <<h, eidRes, strict>>

\* ContactHeader::deserialize on the first n bytes of the buffer
Deserialize(n) ==
    /\ ~panicked
    /\ LET out == deserialize(Take(wire, n))
       IN  /\ res' = [n |-> n, out |-> out]
           /\ panicked' = (out.kind = "Panic")
    /\ UNCHANGED <<h, eidRes, wire, strict>>

\* ContactHeaderFlags::from_bits_strict
FromBitsStrict(bits) ==
    /\ ~panicked
    /\ strict' = [bits |-> bits, ok |-> from_bits_strict(bits)]
    /\ UNCHANGED <<h, eidRes, wire, res, panicked>>

----------------------------------------------------------------------------
(* Specifications *)

\* The callers of the examples: a header is built, serialized once built and
\* written out (contact_dump.rs); the reader decodes what has arrived of the
\* message so far (contact_read.rs, the read loop of server_test.rs).
Next ==
    \/ New
    \/ wire = <<>> /\ \E s \in EidInputs : eid(s)
    \/ wire = <<>> /\ \E f \in FlagValues : flags(f)
    \/ wire = <<>> /\ \E k \in KeepaliveVals : keepalive(k)
    \/ wire = <<>> /\ \E v \in SegmentVals : segment_mru(v)
    \/ wire = <<>> /\ \E v \in TransferVals : transfer_mru(v)
    \/ wire = <<>> /\ \E f \in FlagValues : set_flag(f)
    \/ wire = <<>> /\ \E f \in FlagValues : unset_flag(f)
    \/ wire = <<>> /\ clear_flags
    \/ Serialize
    \/ \E n \in 0..Len(wire) : Deserialize(n)

Spec == Init /\ [][Next]_vars

\* A receiver that is handed an arbitrary buffer, cut off at any point, and
\* decodes all of it.
InitDecode ==
    /\ h = new
    /\ eidRes = "none"
    /\ wire \in UNION {Prefixes(b) : b \in ReceivedBuffers}
    /\ res = NoResult
    /\ strict = NoStrict
    /\ panicked = FALSE

NextDecode ==
    \/ Deserialize(Len(wire))
    \/ \E b \in FlagOctets : FromBitsStrict(b)

SpecDecode == InitDecode /\ [][NextDecode]_vars

\* A caller that sets endpoint ids up to and beyond the u16 limit, changes
\* other fields and serializes at any time.
NextEid ==
    \/ New
    \/ \E s \in EidInputs \cup LongEids : eid(s)
    \/ \E f \in FlagValues : set_flag(f)
    \/ \E k \in KeepaliveVals : keepalive(k)
    \/ Serialize

SpecEid == Init /\ [][NextEid]_vars

----------------------------------------------------------------------------
(* Properties *)

\* the byte length an endpoint id is encoded with
EidLen(hdr) == IF hdr.eid.some THEN Len(hdr.eid.val) ELSE 0

\* a message is on the wire: under Spec it is serialize(h)
Sent == wire # <<>>

\* deserialize has been called, on the first res.n bytes of the buffer
Decoded == res.n >= 0

HasMagic(b) == Len(b) >= 4 /\ Take(b, 4) = <<100, 116, 110, 33>>

\* C1: round trip. Decoding the whole of serialize(h) is a complete parse
\* that gives back h field for field and leaves no input, for every header
\* the builder can make, the one with the empty endpoint id included.
C1_RoundTrip ==
    (Sent /\ res.n = Len(wire)) =>
        /\ res.out.kind = "Done"
        /\ res.out.val = h
        /\ res.out.rest = <<>>

\* C2: the decoder never panics. Every call of deserialize returns a
\* complete parse, Incomplete or an error value, whatever the buffer holds.
C2_NeverPanics ==
    /\ ~panicked
    /\ Decoded => res.out.kind \in {"Done", "Incomplete", "Error"}

\* C3: incremental decode. Every proper prefix of a serialized message
\* decodes to Incomplete, and the whole message to a complete parse.
C3_IncrementalDecode ==
    (Sent /\ Decoded) =>
        IF res.n < Len(wire)
        THEN res.out.kind = "Incomplete"
        ELSE res.out.kind = "Done"

\* a message with a two-byte endpoint id, decoded with its last byte missing
C3_Witness ==
    /\ Sent
    /\ EidLen(h) = 2
    /\ res.n = Len(wire) - 1
    /\ res.out.kind = "Incomplete"

\* C4: encode layout. The serialized header is the magic, the version
\* octet, the flags octet, the keepalive in 2 bytes, segment_mru and
\* transfer_mru in 8 bytes each, the endpoint id length L in 2 bytes, all
\* most significant byte first, and the L bytes of the endpoint id: 26 + L
\* bytes in all.
C4_EncodeLayout ==
    Sent =>
        /\ Len(wire) = 26 + EidLen(h)
        /\ \A k \in 1..Len(wire) : wire[k] \in 0..255
        /\ SubSeq(wire, 1, 4) = <<100, 116, 110, 33>>
        /\ wire[5] = h.version
        /\ wire[6] = h.flags
        /\ 256 * wire[7] + wire[8] = h.keepalive
        /\ \A k \in 9..12 : wire[k] = 0
        /\ ((wire[13] * 256 + wire[14]) * 256 + wire[15]) * 256 + wire[16]
               = h.segment_mru
        /\ \A k \in 17..20 : wire[k] = 0
        /\ ((wire[21] * 256 + wire[22]) * 256 + wire[23]) * 256 + wire[24]
               = h.transfer_mru
        /\ 256 * wire[25] + wire[26] = EidLen(h)
        /\ SubSeq(wire, 27, Len(wire)) = (IF h.eid.some THEN h.eid.val ELSE <<>>)

\* a serialized header none of whose fields has its default value
C4_Witness ==
    /\ Sent
    /\ h.flags = CAN_TLS
    /\ h.keepalive = 300
    /\ h.segment_mru = 4096
    /\ h.transfer_mru = 1048576
    /\ h.eid = Some(<<195, 169>>)

\* C5: version gate. A buffer of 5 bytes or more with the magic and a
\* version octet other than 4 decodes to an error, however short it is.
C5_VersionGate ==
    (Decoded /\ res.n >= 5 /\ HasMagic(wire) /\ wire[5] # 4) =>
        res.out = Error("MapOpt")

\* a buffer that ends right after a version octet of 5
C5_Witness ==
    /\ Decoded
    /\ Len(wire) = 5
    /\ HasMagic(wire)
    /\ wire[5] = 5
    /\ res.out.kind = "Error"

\* C6: magic gate. A buffer of 4 bytes or more whose first 4 bytes are not
\* the magic decodes to an error, whatever follows.
C6_MagicGate ==
    (Decoded /\ res.n >= 4 /\ ~HasMagic(wire)) => res.out = Error("Tag")

\* a long buffer that is a valid header but for the last octet of the magic
C6_Witness ==
    /\ Decoded
    /\ Len(wire) >= 27
    /\ Take(wire, 6) = <<100, 116, 110, 34, 4, 1>>
    /\ res.out.kind = "Error"

\* C7: flag strictness. A buffer of 6 bytes or more with the magic, version
\* 4 and a flags octet with a bit other than bit 0 decodes to an error; the
\* flags of a complete parse are within {CAN_TLS}; from_bits_strict fails
\* for exactly the octets with a bit other than bit 0.
C7_FlagStrictness ==
    /\ (Decoded /\ res.n >= 6 /\ HasMagic(wire) /\ wire[5] = 4 /\ wire[6] \div 2 # 0)
           => res.out = Error("MapOpt")
    /\ (Decoded /\ res.out.kind = "Done") => res.out.val.flags \in {0, 1}
    /\ strict.bits >= 0 => (strict.ok <=> strict.bits \div 2 = 0)

\* a buffer with flags octet 0x81 was decoded and octet 0x02 was given to
\* from_bits_strict
C7_Witness ==
    /\ Decoded
    /\ Len(wire) >= 6
    /\ HasMagic(wire)
    /\ wire[5] = 4
    /\ wire[6] = 129
    /\ res.out.kind = "Error"
    /\ strict = [bits |-> 2, ok |-> FALSE]

\* C8: endpoint id normalization. In every header the builder makes and in
\* every header of a complete parse, the endpoint id is None exactly when
\* its encoded length is 0: there is no present-but-empty endpoint id.
C8_EidNormalized ==
    /\ h.eid.some => Len(h.eid.val) > 0
    /\ (Decoded /\ res.out.kind = "Done") =>
           (res.out.val.eid.some => Len(res.out.val.eid.val) > 0)

\* C9: ContactHeader::eid succeeds and replaces the endpoint id exactly when
\* the text has at most 65535 bytes; otherwise it returns the error and
\* leaves every field of the header as it was. No header ever holds a
\* longer endpoint id, and the assert! of serialize never fails.
C9_EidLengthCheck ==
    /\ [][\A s \in EidInputs \cup LongEids :
            eid(s) =>
                IF Len(s) <= 65535
                THEN eidRes' = "Ok" /\ h' = [h EXCEPT !.eid = Some(s)]
                ELSE eidRes' = "Err" /\ h' = h]_vars
    /\ [](~panicked /\ EidLen(h) <= 65535)

\* an endpoint id of 65535 bytes was set and serialized, and a longer one
\* was refused after it
C9_Witness ==
    /\ eidRes = "Err"
    /\ EidLen(h) = 65535
    /\ Len(wire) = 26 + 65535

Has(fl, f) == BitAnd(fl, f) = f

OtherFieldsKept ==
    \A field \in {"version", "keepalive", "segment_mru", "transfer_mru", "eid"} :
        h'[field] = h[field]

\* C10: the flag mutators are idempotent. set_flag(b) sets b, and changes
\* nothing when b is set already; unset_flag(b) clears b, and changes
\* nothing when b is clear already; clear_flags leaves no flag set; none of
\* them fails or changes another field.
C10_FlagMutators ==
    [][/\ \A f \in FlagValues :
            set_flag(f) =>
                /\ Has(h'.flags, f)
                /\ Has(h.flags, f) => h' = h
                /\ h'.flags \in {h.flags, h.flags + f}
                /\ OtherFieldsKept /\ ~panicked'
       /\ \A f \in FlagValues :
            unset_flag(f) =>
                /\ BitAnd(h'.flags, f) = 0
                /\ BitAnd(h.flags, f) = 0 => h' = h
                /\ h'.flags \in {h.flags, h.flags - f}
                /\ OtherFieldsKept /\ ~panicked'
       /\ clear_flags =>
                /\ h'.flags = 0
                /\ OtherFieldsKept /\ ~panicked']_vars

\* CAN_TLS is set in a header that is still being built and whose other
\* fields have been set
C10_Witness ==
    /\ ~Sent
    /\ h.flags = CAN_TLS
    /\ h.keepalive = 300
    /\ h.eid.some

====
